---- MODULE Spec2Model ----
(***************************************************************************)
(* Alert lifecycle and escalation engine of the Safeguard-AI backend:      *)
(* the cooldown tracker and rule evaluator (services/monitoringRules.js),  *)
(* the Alert model (models/Alert.js), the alert routes (routes/alerts.js)  *)
(* and the event ingestion endpoint (routes/monitoring.js).                *)
(*                                                                         *)
(* Three specifications share the variables below:                         *)
(*   SpecCooldown  shouldFire called directly with arbitrary `now` values  *)
(*   SpecAlert     the /api/alerts request handlers, interleaved at their  *)
(*                 awaits, over the stored Alert documents                 *)
(*   SpecEvent     POST /api/monitoring/event handlers, interleaved at     *)
(*                 their awaits, over the cooldown map and a wall clock    *)
(* Times are milliseconds.                                                 *)
(***************************************************************************)
EXTENDS Integers, Sequences, FiniteSets, TLC

VARIABLES
    lastFired,    \* monitoringRules.js lastFired: Map key -> timestamp
    calls,        \* history of shouldFire calls: [k, now, fired]
    cooldownMs,   \* the cooldown window the calls of one behaviour use
    clock,        \* Date.now()
    alerts,       \* the Alert collection: sequence of documents, _id = index
    contacts,     \* the Contact collection of the subject
    emailTo,      \* whether ALERT_EMAIL_TO names a recipient
    req,          \* in-flight request per handler slot
    resp,         \* the last response sent
    nreq,         \* number of requests received so far
    events,       \* history of answered POST /event requests
    sessions      \* the Monitoring collection: sessionId -> [status, activities]

vars == <<lastFired, calls, cooldownMs, clock, alerts, contacts, emailTo,
          req, resp, nreq, events, sessions>>

(***************************************************************************)
(* Bounds of the model                                                     *)
(***************************************************************************)
MaxCalls == 3
MaxNowSteps == 5
MaxRequests == 3
MaxAlerts == 1
MaxWindows == 1
MaxEvents == 2
MaxEvals == 1

(***************************************************************************)
(* services/monitoringRules.js                                             *)
(***************************************************************************)
DEFAULT_COOLDOWN_MS == 2 * 60 * 1000
DEFAULT_INACTIVITY_THRESHOLD_MS == 3 * 60 * 1000

Users == {"u1", "u2"}

\* the raw type strings the model feeds to the rules
RawTypes == {"fall", "FALL", "falls", "inactivity", "idle", "normal", "walk"}

\* String.prototype.toLowerCase on the strings the model uses
toLowerCase(s) ==
    CASE s = "FALL" -> "fall"
      [] OTHER -> s

\* key = (userId, type) => `${String(userId)}:${String(type).toLowerCase()}`
key(userId, type) == userId \o ":" \o toLowerCase(type)

normalizeType(raw) ==
    LET t == toLowerCase(raw) IN
    IF t = "fall" \/ t = "falls" THEN "fall"
    ELSE IF t \in {"inactivity", "idle", "prolonged_inactivity"} THEN "inactivity"
    ELSE IF t = "normal" \/ t = "safe" THEN "normal"
    ELSE "unknown"

\* lastFired.get(k) || 0
lastOf(map, k) == IF k \in DOMAIN map /\ map[k] # 0 THEN map[k] ELSE 0

\* variants of the test: no window at all, and a strict comparison
CooldownIgnored(last, now, cd) == now - last >= 0
CooldownStrict(last, now, cd) == now - last > cd
\* the test of shouldFire: now - last >= cooldownMs
cooldownElapsed(last, now, cd) == now - last >= cd

\* lastFired.set(k, now)
mapSet(map, k, v) == [x \in DOMAIN map \cup {k} |-> IF x = k THEN v ELSE map[x]]

\* variant of shouldFire that fires only for a key that has an entry
ResultNeedsEntry(map, userId, type, now, cd) ==
    /\ key(userId, type) \in DOMAIN map
    /\ cooldownElapsed(lastOf(map, key(userId, type)), now, cd)
\* shouldFire(userId, type, now, cooldownMs): the value returned
shouldFireResult(map, userId, type, now, cd) ==
    cooldownElapsed(lastOf(map, key(userId, type)), now, cd)

\* variant of shouldFire that never records the fire
MapNotSet(map, userId, type, now, cd) == map
\* variant of shouldFire that records every call
MapSetAlways(map, userId, type, now, cd) == mapSet(map, key(userId, type), now)
\* shouldFire(userId, type, now, cooldownMs): the map afterwards
shouldFireMap(map, userId, type, now, cd) ==
    IF shouldFireResult(map, userId, type, now, cd)
    THEN mapSet(map, key(userId, type), now)
    ELSE map

\* variant of isDanger with a strict threshold
DangerStrict(type, durationMs) ==
    LET t == normalizeType(type) IN
    IF t = "fall" THEN TRUE
    ELSE IF t = "inactivity" THEN durationMs > DEFAULT_INACTIVITY_THRESHOLD_MS
    ELSE FALSE
isDanger(type, durationMs) ==
    LET t == normalizeType(type) IN
    IF t = "fall" THEN TRUE
    ELSE IF t = "inactivity" THEN durationMs >= DEFAULT_INACTIVITY_THRESHOLD_MS
    ELSE FALSE

\* variant of severityFor with strict thresholds
SeverityStrict(type, confidence, durationMs) ==
    LET t == normalizeType(type) IN
    IF t = "fall"
    THEN (IF confidence > 90 THEN "critical"
          ELSE IF confidence > 70 THEN "high"
          ELSE "medium")
    ELSE IF t = "inactivity"
    THEN (IF durationMs > DEFAULT_INACTIVITY_THRESHOLD_MS * 2 THEN "high"
          ELSE IF durationMs > DEFAULT_INACTIVITY_THRESHOLD_MS THEN "medium"
          ELSE "low")
    ELSE "low"
\* severityFor({ type, confidence, durationMs }); confidence in hundredths
severityFor(type, confidence, durationMs) ==
    LET t == normalizeType(type) IN
    IF t = "fall"
    THEN (IF confidence >= 90 THEN "critical"
          ELSE IF confidence >= 70 THEN "high"
          ELSE "medium")
    ELSE IF t = "inactivity"
    THEN (IF durationMs >= DEFAULT_INACTIVITY_THRESHOLD_MS * 2 THEN "high"
          ELSE IF durationMs >= DEFAULT_INACTIVITY_THRESHOLD_MS THEN "medium"
          ELSE "low")
    ELSE "low"

(***************************************************************************)
(* models/Alert.js                                                         *)
(***************************************************************************)
Statuses == {"active", "acknowledged", "resolved", "escalated"}
Severities == {"low", "medium", "high", "critical"}
AlertTypes == {"fall", "inactivity", "medical", "security", "wellness", "system", "sos"}
Channels == {"email", "sms", "push"}

\* alertSchema.escalationLevel: min 0, max 3
EscalationMin == 0
EscalationMax == 3

\* pre('save'): severityPriority[this.severity] || 1
severityPriority(severity) ==
    CASE severity = "low" -> 1
      [] severity = "medium" -> 3
      [] severity = "high" -> 6
      [] severity = "critical" -> 10
      [] OTHER -> 1

\* variant of the validators without the max
LevelUnchecked(level) == level >= EscalationMin
\* the schema validators of escalationLevel, run by save() and create()
levelValid(level) == level >= EscalationMin /\ level <= EscalationMax

\* alertSchema.priority: default 1, min 1, max 10
PriorityDefault == 1
PriorityMin == 1
PriorityMax == 10
priorityValid(priority) == priority >= PriorityMin /\ priority <= PriorityMax

\* a new Alert document with the schema defaults; null dates are 0
newAlert(userId, alertType, severity, status, level) ==
    [userId |-> userId, alertType |-> alertType, severity |-> severity,
     priority |-> PriorityDefault, status |-> status,
     acknowledgedAt |-> 0, acknowledgedBy |-> "none",
     resolvedAt |-> 0, resolvedBy |-> "none",
     escalationLevel |-> level, escalationHistory |-> << >>,
     notifications |-> << >>, autoResolve |-> FALSE, v |-> 0]

\* variant of the hook that leaves the priority as given
HookSkipped(doc, severityModified) == doc
\* alertSchema.pre('save'): if (this.isModified('severity')) this.priority = ...
preSave(doc, severityModified) ==
    IF severityModified THEN [doc EXCEPT !.priority = severityPriority(doc.severity)] ELSE doc

\* Alert.create(data): a new document (every given path is modified), saved
createAlert(doc) == preSave(doc, TRUE)

\* alertSchema.methods.acknowledge, up to save()
acknowledge(doc, userId, now) ==
    [doc EXCEPT !.status = "acknowledged", !.acknowledgedAt = now, !.acknowledgedBy = userId]

\* alertSchema.methods.resolve, up to save()
resolve(doc, userId, now) ==
    [doc EXCEPT !.status = "resolved", !.resolvedAt = now, !.resolvedBy = userId]

\* alertSchema.methods.escalate, up to save()
escalate(doc, contactType, contactId, now) ==
    LET level == doc.escalationLevel + 1
        entry == [level |-> level, timestamp |-> now, contactType |-> contactType,
                  contactId |-> contactId, status |-> "sent"]
    IN [doc EXCEPT !.escalationLevel = level,
                   !.escalationHistory = Append(@, entry),
                   !.status = IF level >= 3 THEN "escalated" ELSE @]

\* the ledger entry pushed by alertSchema.methods.addNotification
pendingEntry(contactId, contactType, now) ==
    [contactId |-> contactId, contactType |-> contactType, sentAt |-> now,
     status |-> "pending", deliveryAttempts |-> 0, lastAttempt |-> now,
     response |-> "null"]

\* alertSchema.methods.addNotification, up to save()
addNotification(doc, contactId, contactType, now) ==
    [doc EXCEPT !.notifications = Append(@, pendingEntry(contactId, contactType, now))]

\* this.notifications.find(n => n.contactId.toString() === contactId.toString()):
\* the index of the first entry of that contact, 0 when there is none, and
\* -1 when an entry with a null contactId is met first (TypeError)
findNotification(doc, contactId) ==
    LET n == doc.notifications
        hits == {i \in 1..Len(n) : n[i].contactId = contactId \/ n[i].contactId = "null"}
        first == IF hits = {} THEN 0 ELSE CHOOSE i \in hits : \A j \in hits : i <= j
    IN IF first = 0 THEN 0
       ELSE IF n[first].contactId = "null" THEN -1
       ELSE first

\* alertSchema.methods.updateNotificationStatus, up to save(); i = findNotification > 0
updateNotificationStatus(doc, i, status, response, now) ==
    [doc EXCEPT !.notifications[i] =
        [@ EXCEPT !.status = status,
                  !.lastAttempt = now,
                  !.deliveryAttempts = IF status = "failed" THEN @ + 1 ELSE @,
                  !.response = IF response # "" THEN response ELSE @]]

(***************************************************************************)
(* Document.prototype.save() of an Alert loaded as `was` and changed to    *)
(* `doc`: the modified paths are $set, pushed array elements are $push-ed  *)
(* with $inc __v, and a $set inside an array element is sent with the      *)
(* loaded __v in the filter (VersionError when the stored __v differs).     *)
(***************************************************************************)
ScalarPaths == {"status", "acknowledgedAt", "acknowledgedBy", "resolvedAt", "resolvedBy",
                "escalationLevel"}

pushed(was, doc, path) == SubSeq(doc[path], Len(was[path]) + 1, Len(doc[path]))

\* whether an element the document was loaded with has been changed
elementsChanged(was, doc) ==
    \E i \in 1..Len(was.notifications) : doc.notifications[i] # was.notifications[i]

\* whether the save needs the stored __v to equal the loaded one
versionWhere(was, doc) == elementsChanged(was, doc)

\* whether the save pushes to an array (and so increments __v)
versionInc(was, doc) ==
    \/ Len(doc.notifications) > Len(was.notifications)
    \/ Len(doc.escalationHistory) > Len(was.escalationHistory)

\* the outcome of save(): "ValidationError", "VersionError" or "ok"
saveOutcome(stored, was, doc) ==
    IF doc.escalationLevel # was.escalationLevel /\ ~levelValid(doc.escalationLevel)
        THEN "ValidationError"
    ELSE IF versionWhere(was, doc) /\ stored.v # was.v THEN "VersionError"
    ELSE "ok"

\* the stored document after a save() that succeeds
saveStored(stored, was, doc) ==
    [p \in DOMAIN stored |->
        IF p \in ScalarPaths THEN (IF doc[p] # was[p] THEN doc[p] ELSE stored[p])
        ELSE IF p = "escalationHistory" THEN stored[p] \o pushed(was, doc, p)
        ELSE IF p = "notifications"
            THEN [i \in 1..Len(stored[p]) |->
                    IF i <= Len(was[p]) /\ doc[p][i] # was[p][i] THEN doc[p][i] ELSE stored[p][i]]
                 \o pushed(was, doc, p)
        ELSE IF p = "v" THEN (IF versionInc(was, doc) THEN stored.v + 1 ELSE stored.v)
        ELSE stored[p]]

\* the in-memory document after a save() that succeeds
saveLocal(was, doc) ==
    [doc EXCEPT !.v = IF versionInc(was, doc) THEN @ + 1 ELSE @]

(***************************************************************************)
(* models/Contact.js: contact selection                                    *)
(***************************************************************************)
\* the query of getAvailableContactsForAlert
candidatesFor(cs, userId, alertType) ==
    SelectSeq(cs, LAMBDA c : /\ c.userId = userId
                             /\ c.isActive
                             /\ alertType \in c.alertTypes
                             /\ (c.email \/ c.sms \/ c.push))

\* contactSchema.methods.isAvailableAt(dateTime) with a Date argument:
\* Date has no toLocaleLowerCase, so an active contact raises TypeError
isAvailableAt(c) == IF ~c.isActive THEN "false" ELSE "TypeError"

\* contactSchema.statics.getAvailableContactsForAlert(userId, alertType, new Date())
getAvailableContactsForAlert(cs, userId, alertType) ==
    LET cand == candidatesFor(cs, userId, alertType) IN
    IF \E i \in 1..Len(cand) : isAvailableAt(cand[i]) = "TypeError"
    THEN [threw |-> TRUE, list |-> << >>]
    ELSE [threw |-> FALSE, list |-> SelectSeq(cand, LAMBDA c : isAvailableAt(c) = "true")]

\* variant of the SOS query that keeps the alertTypes filter
ActiveForSos(cs, userId) ==
    SelectSeq(cs, LAMBDA c : c.userId = userId /\ c.isActive /\ "sos" \in c.alertTypes)
\* Contact.find({ userId, isActive: true })
activeContacts(cs, userId) == SelectSeq(cs, LAMBDA c : c.userId = userId /\ c.isActive)

(***************************************************************************)
(* routes/alerts.js: the request handlers. A handler slot h holds one      *)
(* request at a time; each action is the code between two awaits that      *)
(* reach the database.                                                     *)
(***************************************************************************)
Handlers == {1, 2}
NoReq == [op |-> "idle"]
NoResp == [op |-> "none", id |-> 0, code |-> 0, msg |-> ""]

\* req.user._id of the requests on /api/alerts
Subject == "u1"

Idle(h) == req[h].op = "idle"
\* the slots are interchangeable: a new request takes the lowest idle one
CanReceive(h) == Idle(h) /\ nreq < MaxRequests /\ \A g \in Handlers : g < h => ~Idle(g)

\* Alert.findOne({ _id, userId }): 0 when there is none
findAlert(id, userId) ==
    IF id \in 1..Len(alerts) /\ alerts[id].userId = userId THEN id ELSE 0

\* res.status(code).json(...) ends the request
Respond(h, op, id, code, msg) ==
    /\ resp' = [op |-> op, id |-> id, code |-> code, msg |-> msg]
    /\ req' = [req EXCEPT ![h] = NoReq]

Await(h, r) ==
    /\ req' = [req EXCEPT ![h] = r]
    /\ UNCHANGED resp

UnchangedRules == UNCHANGED <<lastFired, calls, cooldownMs, events, sessions>>
UnchangedConfig == UNCHANGED <<contacts, emailTo>>

\* a ledger entry in the form POST /event writes it: contactId null
nullContactEntry(now) ==
    [contactId |-> "null", contactType |-> "sms", sentAt |-> now,
     status |-> "sent", deliveryAttempts |-> 1, lastAttempt |-> now,
     response |-> "mocked"]

\* the request bodies of POST /api/alerts the model sends
CreateBodies ==
    {[alertType |-> "fall", severity |-> "high", status |-> "active", escalationLevel |-> 0,
      priority |-> PriorityDefault, notifications |-> << >>],
     [alertType |-> "fall", severity |-> "low", status |-> "active", escalationLevel |-> 2,
      priority |-> 5, notifications |-> << >>],
     [alertType |-> "medical", severity |-> "critical", status |-> "active", escalationLevel |-> 4,
      priority |-> PriorityDefault, notifications |-> << >>],
     [alertType |-> "sos", severity |-> "high", status |-> "active", escalationLevel |-> 0,
      priority |-> PriorityDefault, notifications |-> << >>],
     [alertType |-> "inactivity", severity |-> "medium", status |-> "active",
      escalationLevel |-> 0, priority |-> PriorityDefault,
      notifications |-> <<nullContactEntry(0)>>]}

\* POST /api/alerts
PostAlert(h, body) ==
    /\ CanReceive(h)
    /\ Len(alerts) < MaxAlerts
    /\ nreq' = nreq + 1 /\ clock' = clock + 1
    /\ UnchangedRules /\ UnchangedConfig
    /\ IF ~(body.alertType \in AlertTypes \ {"sos"} /\ body.severity \in Severities)
       THEN /\ Respond(h, "create", 0, 400, "Validation failed")
            /\ UNCHANGED alerts
       ELSE IF ~(/\ body.status \in Statuses /\ levelValid(body.escalationLevel)
                 /\ priorityValid(body.priority))
       THEN /\ Respond(h, "create", 0, 500, "Server error while creating alert")
            /\ UNCHANGED alerts
       ELSE /\ alerts' = Append(alerts,
                    createAlert([newAlert(Subject, body.alertType, body.severity,
                                          body.status, body.escalationLevel)
                                    EXCEPT !.priority = body.priority,
                                           !.notifications = body.notifications]))
            /\ IF getAvailableContactsForAlert(contacts, Subject, body.alertType).threw
               THEN Respond(h, "create", Len(alerts) + 1, 500,
                            "Server error while creating alert")
               ELSE Respond(h, "create", Len(alerts) + 1, 201,
                            "Alert created successfully")

\* the awaited ledger operations of the fan-out loop of POST /sos for one contact
contactTodo(c) ==
    (IF c.email THEN <<[c |-> c.id, ch |-> "email", ph |-> "add"],
                       [c |-> c.id, ch |-> "email", ph |-> "upd"]>> ELSE << >>)
    \o (IF c.sms THEN <<[c |-> c.id, ch |-> "sms", ph |-> "add"],
                        [c |-> c.id, ch |-> "sms", ph |-> "upd"]>> ELSE << >>)
    \o (IF c.push THEN <<[c |-> c.id, ch |-> "push", ph |-> "add"]>> ELSE << >>)

RECURSIVE sosTodo(_)
sosTodo(cs) == IF cs = << >> THEN << >> ELSE contactTodo(Head(cs)) \o sosTodo(Tail(cs))

\* the end of a loop step: the next awaited operation, or the 201 response
SosContinue(h, r) ==
    IF r.todo = << >>
    THEN Respond(h, "sos", r.id, 201, "SOS alert triggered successfully")
    ELSE Await(h, r)

\* POST /sos: Alert.create, then Contact.find
PostSos(h) ==
    /\ CanReceive(h)
    /\ Len(alerts) < MaxAlerts
    /\ nreq' = nreq + 1 /\ clock' = clock + 1
    /\ UnchangedRules /\ UnchangedConfig
    /\ LET doc == createAlert(newAlert(Subject, "sos", "critical", "active", 0)) IN
       /\ alerts' = Append(alerts, doc)
       /\ SosContinue(h, [op |-> "sos", pc |-> "loop", id |-> Len(alerts) + 1,
                          was |-> doc, doc |-> doc,
                          todo |-> sosTodo(activeContacts(contacts, Subject))])

\* POST /sos: await alert.addNotification(contact._id, channel)
SosAdd(h) ==
    /\ req[h].op = "sos" /\ Head(req[h].todo).ph = "add"
    /\ UnchangedRules /\ UnchangedConfig /\ UNCHANGED <<nreq, clock>>
    /\ LET r == req[h]
           t == Head(r.todo)
           doc == addNotification(r.doc, t.c, t.ch, clock)
           local == saveLocal(r.was, doc)
       IN /\ alerts' = [alerts EXCEPT ![r.id] = saveStored(@, r.was, doc)]
             /\ SosContinue(h, [r EXCEPT !.was = local, !.doc = local, !.todo = Tail(@)])

\* POST /sos: the channel send settles (sent) and
\* await alert.updateNotificationStatus(contact._id, 'sent' | 'failed', response)
SosUpdate(h, sent) ==
    /\ req[h].op = "sos" /\ Head(req[h].todo).ph = "upd"
    /\ (Head(req[h].todo).ch = "email" /\ ~emailTo) => ~sent
    /\ UnchangedRules /\ UnchangedConfig /\ UNCHANGED <<nreq, clock>>
    /\ LET r == req[h]
           t == Head(r.todo)
           i == findNotification(r.doc, t.c)
           doc == updateNotificationStatus(r.doc, i, IF sent THEN "sent" ELSE "failed",
                                           IF sent THEN "sent" ELSE "send failed", clock)
           local == saveLocal(r.was, doc)
       IN IF saveOutcome(alerts[r.id], r.was, doc) = "ok"
             THEN /\ alerts' = [alerts EXCEPT ![r.id] = saveStored(@, r.was, doc)]
                  /\ SosContinue(h, [r EXCEPT !.was = local, !.doc = local, !.todo = Tail(@)])
             ELSE /\ UNCHANGED alerts
                  /\ Respond(h, "sos", r.id, 500, "Server error while triggering SOS alert")

\* variant of the status guards that rejects nothing
AlwaysAllowed(doc) == FALSE
\* the guard of PUT /:id/acknowledge
ackRejected(doc) == doc.status = "resolved"

\* PUT /:id/acknowledge: Alert.findOne, the status check, alert.acknowledge up to save()
AckLoad(h, id) ==
    /\ CanReceive(h)
    /\ nreq' = nreq + 1 /\ clock' = clock + 1
    /\ UnchangedRules /\ UnchangedConfig /\ UNCHANGED alerts
    /\ IF findAlert(id, Subject) = 0
       THEN Respond(h, "ack", id, 404, "Alert not found")
       ELSE IF ackRejected(alerts[id])
       THEN Respond(h, "ack", id, 400, "Cannot acknowledge resolved alert")

       ELSE /\ Await(h, [op |-> "ack", pc |-> "save", id |-> id,
                         was |-> alerts[id], doc |-> acknowledge(alerts[id], Subject, clock)])

\* the guard of PUT /:id/resolve
resolveRejected(doc) == doc.status = "resolved"

\* PUT /:id/resolve: Alert.findOne, the status check, alert.resolve up to save()
ResolveLoad(h, id) ==
    /\ CanReceive(h)
    /\ nreq' = nreq + 1 /\ clock' = clock + 1
    /\ UnchangedRules /\ UnchangedConfig /\ UNCHANGED alerts
    /\ IF findAlert(id, Subject) = 0
       THEN Respond(h, "resolve", id, 404, "Alert not found")
       ELSE IF resolveRejected(alerts[id])
       THEN Respond(h, "resolve", id, 400, "Alert is already resolved")

       ELSE /\ Await(h, [op |-> "resolve", pc |-> "save", id |-> id,
                         was |-> alerts[id], doc |-> resolve(alerts[id], Subject, clock)])

\* the guard of PUT /:id/escalate
escalateRejected(doc) == doc.status = "resolved"

\* the contactType values the model sends to PUT /:id/escalate
EscalateTypes == {"sms", "fax"}

\* PUT /:id/escalate: validation, Alert.findOne, the status check, alert.escalate up to save()
EscalateLoad(h, id, contactType) ==
    /\ CanReceive(h)
    /\ nreq' = nreq + 1 /\ clock' = clock + 1
    /\ UnchangedRules /\ UnchangedConfig /\ UNCHANGED alerts
    /\ IF contactType \notin Channels
       THEN Respond(h, "escalate", id, 400, "Validation failed")
       ELSE IF findAlert(id, Subject) = 0
       THEN Respond(h, "escalate", id, 404, "Alert not found")
       ELSE IF escalateRejected(alerts[id])
       THEN Respond(h, "escalate", id, 400, "Cannot escalate resolved alert")

       ELSE /\ Await(h, [op |-> "escalate", pc |-> "save", id |-> id,
                         was |-> alerts[id],
                         doc |-> escalate(alerts[id], contactType, "c1", clock)])

\* the 200 and 500 messages of the three lifecycle routes
okMessage(op) ==
    CASE op = "ack" -> "Alert acknowledged successfully"
      [] op = "resolve" -> "Alert resolved successfully"
      [] op = "escalate" -> "Alert escalated successfully"
      [] OTHER -> "Notification status updated successfully"

errorMessage(op) ==
    CASE op = "ack" -> "Server error while acknowledging alert"
      [] op = "resolve" -> "Server error while resolving alert"
      [] op = "escalate" -> "Server error while escalating alert"
      [] OTHER -> "Server error while updating notification status"

\* the save() that ends acknowledge, resolve, escalate and updateNotificationStatus,
\* and the response of the route
Save(h) ==
    /\ req[h].op \in {"ack", "resolve", "escalate", "notif"} /\ req[h].pc = "save"
    /\ UnchangedRules /\ UnchangedConfig /\ UNCHANGED <<nreq, clock>>
    /\ LET r == req[h] IN
       IF saveOutcome(alerts[r.id], r.was, r.doc) = "ok"
       THEN /\ alerts' = [alerts EXCEPT ![r.id] = saveStored(@, r.was, r.doc)]
            /\ Respond(h, r.op, r.id, 200, okMessage(r.op))
       ELSE /\ UNCHANGED alerts
            /\ Respond(h, r.op, r.id, 500, errorMessage(r.op))

\* PUT /:id: Alert.findOneAndUpdate with the autoResolve field of the body
PutAlert(h, id, autoResolve) ==
    /\ CanReceive(h)
    /\ nreq' = nreq + 1 /\ clock' = clock + 1
    /\ UnchangedRules /\ UnchangedConfig
    /\ IF findAlert(id, Subject) = 0
       THEN Respond(h, "update", id, 404, "Alert not found") /\ UNCHANGED alerts
       ELSE /\ alerts' = [alerts EXCEPT ![id].autoResolve = autoResolve]
            /\ Respond(h, "update", id, 200, "Alert updated successfully")

\* the contactId and status values the model sends to PUT /:id/notifications/:contactId
NotifContacts == {"c1"}
NotifStatuses == {"failed"}

\* PUT /:id/notifications/:contactId: Alert.findOne, updateNotificationStatus up to save()
NotifLoad(h, id, contactId, status) ==
    /\ CanReceive(h)
    /\ nreq' = nreq + 1 /\ clock' = clock + 1
    /\ UnchangedRules /\ UnchangedConfig /\ UNCHANGED alerts
    /\ IF findAlert(id, Subject) = 0
       THEN Respond(h, "notif", id, 404, "Alert not found")
       ELSE LET i == findNotification(alerts[id], contactId) IN
            IF i = -1
            THEN Respond(h, "notif", id, 500, errorMessage("notif"))
            ELSE IF i = 0
            THEN /\ Await(h, [op |-> "notif", pc |-> "save", id |-> id,
                              was |-> alerts[id], doc |-> alerts[id]])

            ELSE /\ Await(h, [op |-> "notif", pc |-> "save", id |-> id,
                              was |-> alerts[id],
                              doc |-> updateNotificationStatus(alerts[id], i, status, "", clock)])

\* the deployments the model starts from: the subject's contacts and
\* whether ALERT_EMAIL_TO is set
Configs ==
    {[contacts |-> << >>, emailTo |-> FALSE],
     [contacts |-> <<[id |-> "c1", userId |-> "u1", isActive |-> TRUE, alertTypes |-> {"fall"},
                      email |-> FALSE, sms |-> TRUE, push |-> FALSE, phone |-> "p1"]>>,
      emailTo |-> TRUE]}

AlertIds == 1..MaxAlerts

\* the Alert collection the model starts from: empty, or one active alert
\* created earlier
InitialAlerts ==
    {<< >>, <<createAlert(newAlert(Subject, "fall", "high", "active", 0))>>}

InitAlert ==
    /\ lastFired = << >>
    /\ calls = << >>
    /\ cooldownMs = DEFAULT_COOLDOWN_MS
    /\ clock = 1
    /\ alerts \in InitialAlerts
    /\ \E c \in Configs : contacts = c.contacts /\ emailTo = c.emailTo
    /\ req = [h \in Handlers |-> NoReq]
    /\ resp = NoResp
    /\ nreq = 0
    /\ events = << >>
    /\ sessions = << >>

NextAlert ==
    \E h \in Handlers :
        \/ \E body \in CreateBodies : PostAlert(h, body)
        \/ PostSos(h)
        \/ SosAdd(h)
        \/ \E sent \in BOOLEAN : SosUpdate(h, sent)
        \/ \E id \in AlertIds : AckLoad(h, id)
        \/ \E id \in AlertIds : ResolveLoad(h, id)
        \/ \E id \in AlertIds, contactType \in EscalateTypes : EscalateLoad(h, id, contactType)
        \/ Save(h)
        \/ \E id \in AlertIds : PutAlert(h, id, TRUE)
        \/ \E id \in AlertIds, c \in NotifContacts, st \in NotifStatuses : NotifLoad(h, id, c, st)

SpecAlert == InitAlert /\ [][NextAlert]_vars

(***************************************************************************)
(* Properties of the alert lifecycle (SpecAlert)                           *)
(***************************************************************************)
StoredIds == 1..Len(alerts)

\* a request of route op for alert id is received in this step
Received(op, id) ==
    /\ nreq' = nreq + 1
    /\ \/ \E h \in Handlers : Idle(h) /\ req'[h].op = op /\ req'[h].id = id
       \/ req' = req /\ resp'.op = op /\ resp'.id = id

\* the save() of the request of route op held by slot h happens in this step
Saved(h, op) == req[h].op = op /\ req[h].pc = "save" /\ req'[h] # req[h]

\* C5 as claimed: once an alert's stored status is resolved, no request,
\* in any interleaving, changes it to anything else.
C5_ResolvedIsTerminal ==
    [][\A id \in StoredIds :
          alerts[id].status = "resolved" => alerts'[id].status = "resolved"]_vars

\* C6: acknowledging an alert whose status is resolved answers 400 'Cannot
\* acknowledge resolved alert' and leaves the alert unchanged; acknowledging
\* from any other status is accepted, succeeds and stores acknowledgedAt/By.
C6_Acknowledge ==
    [][\A id \in StoredIds :
          /\ (Received("ack", id) /\ alerts[id].status = "resolved")
                => /\ req' = req
                   /\ resp' = [op |-> "ack", id |-> id, code |-> 400,
                               msg |-> "Cannot acknowledge resolved alert"]
                   /\ alerts' = alerts
          /\ (Received("ack", id) /\ alerts[id].status # "resolved")
                => \E h \in Handlers : req'[h].op = "ack" /\ req'[h].pc = "save"
          /\ \A h \in Handlers :
                (Saved(h, "ack") /\ req[h].id = id)
                    => /\ resp'.op = "ack" /\ resp'.code = 200
                       /\ alerts'[id].acknowledgedAt = req[h].doc.acknowledgedAt
                       /\ alerts'[id].acknowledgedAt > 0
                       /\ alerts'[id].acknowledgedBy = Subject]_vars

\* an acknowledge of a resolved alert was answered 400
C6_Witness ==
    /\ resp.op = "ack" /\ resp.code = 400
    /\ resp.id \in StoredIds
    /\ alerts[resp.id].status = "resolved"
    /\ alerts[resp.id].resolvedAt > 0

\* C7: a resolve stores status resolved with resolvedAt/By; a resolve of an
\* alert that is already resolved answers 400 'Alert is already resolved' and
\* leaves resolvedAt and resolvedBy (and the rest of the alert) as the first
\* call wrote them.
C7_ResolveTwice ==
    [][\A id \in StoredIds :
          /\ (Received("resolve", id) /\ alerts[id].status = "resolved")
                => /\ req' = req
                   /\ resp' = [op |-> "resolve", id |-> id, code |-> 400,
                               msg |-> "Alert is already resolved"]
                   /\ alerts'[id].resolvedAt = alerts[id].resolvedAt
                   /\ alerts'[id].resolvedBy = alerts[id].resolvedBy
                   /\ alerts' = alerts
          /\ \A h \in Handlers :
                (Saved(h, "resolve") /\ req[h].id = id)
                    => /\ resp'.op = "resolve" /\ resp'.code = 200
                       /\ alerts'[id].status = "resolved"
                       /\ alerts'[id].resolvedAt = req[h].doc.resolvedAt
                       /\ alerts'[id].resolvedAt > 0
                       /\ alerts'[id].resolvedBy = Subject]_vars

\* a second resolve was answered 400 and the alert holds the first call's resolvedAt/By
C7_Witness ==
    /\ resp.op = "resolve" /\ resp.code = 400
    /\ resp.id \in StoredIds
    /\ alerts[resp.id].status = "resolved"
    /\ alerts[resp.id].resolvedAt > 0
    /\ alerts[resp.id].resolvedBy = Subject

\* C8: the stored escalationLevel of every alert is within [0,3].
C8_EscalationLevelInRange ==
    \A id \in StoredIds :
        alerts[id].escalationLevel >= 0 /\ alerts[id].escalationLevel <= 3

\* an escalate of an alert at level 3 was refused and the level is still 3
C8_Witness ==
    /\ resp.op = "escalate" /\ resp.code = 500
    /\ resp.id \in StoredIds
    /\ alerts[resp.id].escalationLevel = 3
    /\ alerts[resp.id].escalationHistory # << >>

\* C9 as claimed: an escalate of a non-resolved alert whose level is 3
\* succeeds, keeps the level at 3 and appends one escalation-history entry.
C9_EscalateAtCapAppendsHistory ==
    [][\A h \in Handlers :
          (Saved(h, "escalate") /\ req[h].was.escalationLevel = 3)
              => /\ resp'.op = "escalate" /\ resp'.code = 200
                 /\ alerts'[req[h].id].escalationLevel = 3
                 /\ Len(alerts'[req[h].id].escalationHistory)
                        = Len(alerts[req[h].id].escalationHistory) + 1]_vars

\* C10 as claimed: once an alert's status is resolved, nothing is appended to
\* its notification ledger or its escalation history.
C10_NoAppendAfterResolved ==
    [][\A id \in StoredIds :
          alerts[id].status = "resolved"
              => /\ Len(alerts'[id].notifications) = Len(alerts[id].notifications)
                 /\ Len(alerts'[id].escalationHistory) = Len(alerts[id].escalationHistory)]_vars

\* C11 as claimed: no step stores an escalationLevel lower than the one
\* stored before it.
C11_LevelNeverDecreases ==
    [][\A id \in StoredIds :
          alerts'[id].escalationLevel >= alerts[id].escalationLevel]_vars

\* the escalation level of a document counts its history entries, which
\* carry the levels 1, 2, ... in order
LevelsInOrder(doc) ==
    /\ doc.escalationLevel = Len(doc.escalationHistory)
    /\ \A i \in 1..Len(doc.escalationHistory) : doc.escalationHistory[i].level = i

\* C27 as claimed: no step, under any interleaving of escalate requests,
\* takes a stored alert whose escalationLevel equals the length of its
\* escalationHistory with levels 1..escalationLevel in order to one where
\* that no longer holds.
C27_EscalationsNotLost ==
    [][\A id \in StoredIds :
          LevelsInOrder(alerts[id]) => LevelsInOrder(alerts'[id])]_vars

\* C30 as claimed: the notification-status route never answers an existing
\* alert with a server error.
C30_StatusUpdateNeverFails ==
    ~(resp.op = "notif" /\ resp.code = 500)

\* C29 as claimed: every alert a step adds to the store has status active,
\* escalationLevel 0, an empty escalation history and an empty ledger,
\* whatever the request body held.
C29_NewAlertStartsClean ==
    [][Len(alerts') = Len(alerts) + 1 =>
          LET doc == alerts'[Len(alerts')] IN
          /\ doc.status = "active"
          /\ doc.escalationLevel = 0
          /\ doc.escalationHistory = << >>
          /\ doc.notifications = << >>]_vars

\* C12: the stored priority of every alert is the constant of its stored
\* severity (low 1, medium 3, high 6, critical 10), whatever priority the
\* request that created it supplied.
C12_PriorityFollowsSeverity ==
    \A id \in StoredIds :
        /\ alerts[id].severity = "low" => alerts[id].priority = 1
        /\ alerts[id].severity = "medium" => alerts[id].priority = 3
        /\ alerts[id].severity = "high" => alerts[id].priority = 6
        /\ alerts[id].severity = "critical" => alerts[id].priority = 10
        /\ alerts[id].severity \in Severities

\* POST /api/alerts with severity low and priority 5 in the body was
\* answered 201 and the stored alert has priority 1
C12_Witness ==
    /\ resp.op = "create" /\ resp.code = 201
    /\ resp.id \in StoredIds
    /\ alerts[resp.id].severity = "low"
    /\ alerts[resp.id].escalationLevel >= 2
    /\ alerts[resp.id].priority = 1

\* the status changes of the alert state machine
AllowedTransitions ==
    {<<"active", "acknowledged">>, <<"active", "resolved">>, <<"active", "escalated">>,
     <<"acknowledged", "resolved">>, <<"acknowledged", "escalated">>,
     <<"escalated", "resolved">>}

\* C13 as claimed: every change of an alert's stored status is one of
\* active->acknowledged, active->resolved, active->escalated,
\* acknowledged->resolved, acknowledged->escalated, escalated->resolved.
C13_OnlyAllowedTransitions ==
    [][\A id \in StoredIds :
          alerts'[id].status # alerts[id].status
              => <<alerts[id].status, alerts'[id].status>> \in AllowedTransitions]_vars

(***************************************************************************)
(* models/Monitoring.js and routes/monitoring.js: POST /api/monitoring/event *)
(***************************************************************************)
\* monitoringSchema.activities.activityType: enum
ActivityTypes == {"sleep", "walk", "sit", "stand", "fall", "inactivity", "unknown"}

\* monitoringSchema.status: enum, default 'active'
SessionStatuses == {"active", "paused", "stopped", "error"}

\* a new Monitoring document: status defaults to active, no activities
newSession == [status |-> "active", activities |-> 0]

\* monitoringSchema.methods.addActivity: push, keep the last 1000
addActivity(count) == IF count + 1 > 1000 THEN 1000 ELSE count + 1

\* Date.now() when the first request arrives, and the instants the wall
\* clock passes through afterwards
TenSeconds == 10 * 1000
StartTime == 10 * DEFAULT_COOLDOWN_MS
Instants == {StartTime, StartTime + TenSeconds}
                \cup {StartTime + b * DEFAULT_COOLDOWN_MS : b \in 1..MaxWindows}

\* the request bodies of POST /event the model sends; confidence in hundredths
EventBodies ==
    {[sessionId |-> "s1", type |-> "fall", confidence |-> 95, durationMs |-> 0],
     [sessionId |-> "s1", type |-> "idle", confidence |-> 50,
      durationMs |-> DEFAULT_INACTIVITY_THRESHOLD_MS],
     [sessionId |-> "s1", type |-> "normal", confidence |-> 50, durationMs |-> 0],
     [sessionId |-> "", type |-> "fall", confidence |-> 95, durationMs |-> 0]}

\* the ledger entries POST /event pushes for the results of notifyContacts
RECURSIVE smsEntries(_, _)
smsEntries(numbers, now) ==
    IF numbers = << >> THEN << >>
    ELSE <<nullContactEntry(now)>> \o smsEntries(Tail(numbers), now)

\* contacts.map((c) => c.phone).filter(Boolean)
RECURSIVE phonesOf(_)
phonesOf(cs) ==
    IF cs = << >> THEN << >>
    ELSE (IF Head(cs).phone # "" THEN <<Head(cs).phone>> ELSE << >>) \o phonesOf(Tail(cs))

\* res.json(...) or next(err) ends the request; alertId 0 when the answer has none
EventRespond(h, code, danger, alertId) ==
    /\ resp' = [op |-> "event", id |-> alertId, code |-> code, msg |-> ""]
    /\ events' = Append(events, [rq |-> req[h].rq, posted |-> req[h].posted,
                                 seen |-> req[h].seen, sessionId |-> req[h].body.sessionId,
                                 type |-> req[h].norm,
                                 code |-> code, danger |-> danger, alertId |-> alertId])
    /\ req' = [req EXCEPT ![h] = NoReq]

\* POST /event: the sessionId check, normalizeType, Monitoring.findOne
EventReceive(h, body) ==
    /\ CanReceive(h) /\ nreq < MaxEvents
    /\ nreq' = nreq + 1
    /\ UnchangedConfig /\ UNCHANGED <<lastFired, calls, cooldownMs, clock, alerts, sessions>>
    /\ IF body.sessionId = ""
       THEN /\ resp' = [op |-> "event", id |-> 0, code |-> 400, msg |-> "sessionId is required"]
            /\ events' = Append(events, [rq |-> nreq + 1, posted |-> clock, seen |-> Len(events),
                                         sessionId |-> body.sessionId,
                                         type |-> normalizeType(body.type), code |-> 400,
                                         danger |-> FALSE, alertId |-> 0])
            /\ UNCHANGED req
       ELSE /\ Await(h, [op |-> "event",
                         pc |-> IF body.sessionId \in DOMAIN sessions THEN "activity" ELSE "create",
                         id |-> 0, rq |-> nreq + 1, posted |-> clock, seen |-> Len(events),
                         body |-> body, norm |-> normalizeType(body.type)])
            /\ UNCHANGED events

\* POST /event: Monitoring.create; sessionId is unique
EventCreateSession(h) ==
    /\ req[h].op = "event" /\ req[h].pc = "create"
    /\ UnchangedConfig /\ UNCHANGED <<lastFired, calls, cooldownMs, clock, alerts, nreq>>
    /\ IF req[h].body.sessionId \in DOMAIN sessions
       THEN /\ EventRespond(h, 500, FALSE, 0)
            /\ UNCHANGED sessions
       ELSE /\ sessions' = mapSet(sessions, req[h].body.sessionId, newSession)
            /\ Await(h, [req[h] EXCEPT !.pc = "activity"])
            /\ UNCHANGED events

\* POST /event: session.addActivity, then isDanger and shouldFire(userId, normType)
EventAddActivity(h) ==
    /\ req[h].op = "event" /\ req[h].pc = "activity"
    /\ UnchangedConfig /\ UNCHANGED <<cooldownMs, clock, alerts, nreq>>
    /\ LET r == req[h]
           danger == isDanger(r.norm, r.body.durationMs)
           fire == shouldFireResult(lastFired, Subject, r.norm, clock, DEFAULT_COOLDOWN_MS)
       IN IF r.norm \notin ActivityTypes
          THEN /\ EventRespond(h, 500, FALSE, 0)
               /\ UNCHANGED <<sessions, lastFired, calls>>
          ELSE /\ sessions' = [sessions EXCEPT ![r.body.sessionId].activities = addActivity(@)]
               /\ IF danger
                  THEN /\ lastFired' = shouldFireMap(lastFired, Subject, r.norm, clock,
                                                     DEFAULT_COOLDOWN_MS)
                       /\ calls' = Append(calls, [k |-> key(Subject, r.norm), now |-> clock,
                                                  fired |-> fire])
                  ELSE UNCHANGED <<lastFired, calls>>
               /\ IF danger /\ fire
                  THEN Await(h, [r EXCEPT !.pc = "alert"]) /\ UNCHANGED events
                  ELSE EventRespond(h, 200, danger, 0)

\* POST /event: User.findById, then Alert.create
EventCreateAlert(h) ==
    /\ req[h].op = "event" /\ req[h].pc = "alert"
    /\ UnchangedConfig /\ UNCHANGED <<lastFired, calls, cooldownMs, clock, nreq, events, sessions>>
    /\ LET r == req[h] IN
       /\ alerts' = Append(alerts, createAlert(newAlert(Subject, r.norm,
                                            severityFor(r.norm, r.body.confidence, r.body.durationMs),
                                            "active", 0)))
       /\ Await(h, [r EXCEPT !.pc = "contacts", !.id = Len(alerts) + 1])

\* POST /event: Contact.getAvailableContactsForAlert, notifyContacts, the
\* ledger entries and alert.save(), and the answer
EventSelectContacts(h) ==
    /\ req[h].op = "event" /\ req[h].pc = "contacts"
    /\ UnchangedConfig /\ UNCHANGED <<lastFired, calls, cooldownMs, clock, nreq, sessions>>
    /\ LET r == req[h]
           found == getAvailableContactsForAlert(contacts, Subject, r.norm)
           numbers == phonesOf(found.list)
       IN IF found.threw
          THEN /\ EventRespond(h, 500, FALSE, 0)
               /\ UNCHANGED alerts
          ELSE /\ alerts' = [alerts EXCEPT ![r.id].notifications = @ \o smsEntries(numbers, clock),
                                           ![r.id].v = IF numbers # << >> THEN @ + 1 ELSE @]
               /\ EventRespond(h, 200, TRUE, r.id)

\* time passes
Tick(t) ==
    /\ t > clock
    /\ clock' = t
    /\ UNCHANGED <<lastFired, calls, cooldownMs, alerts, contacts, emailTo, req, resp, nreq,
                   events, sessions>>

InitEvent ==
    /\ lastFired = << >>
    /\ calls = << >>
    /\ cooldownMs = DEFAULT_COOLDOWN_MS
    /\ clock = StartTime
    /\ alerts = << >>
    /\ \E c \in Configs : contacts = c.contacts /\ emailTo = c.emailTo
    /\ req = [h \in Handlers |-> NoReq]
    /\ resp = NoResp
    /\ nreq = 0
    /\ events = << >>
    /\ sessions = << >>

NextEvent ==
    \/ \E t \in Instants : Tick(t)
    \/ \E h \in Handlers :
        \/ \E body \in EventBodies : EventReceive(h, body)
        \/ EventCreateSession(h)
        \/ EventAddActivity(h)
        \/ EventCreateAlert(h)
        \/ EventSelectContacts(h)

SpecEvent == InitEvent /\ [][NextEvent]_vars

(***************************************************************************)
(* Properties of event ingestion (SpecEvent)                               *)
(***************************************************************************)
\* the indices of the shouldFire calls for key k that returned true
Fires(k) == {i \in 1..Len(calls) : calls[i].k = k /\ calls[i].fired}

\* the stored alerts of one type, and the requests still about to create one
AlertsOf(type) == {id \in 1..Len(alerts) : alerts[id].alertType = type}
Creating(type) == {h \in Handlers : req[h].op = "event" /\ req[h].pc = "alert"
                                      /\ req[h].norm = type}

\* C3: however the steps of concurrent POST /event requests interleave, for
\* one (subject, normalized type) key two evaluations that observed
\* shouldFire = true are at least one cooldown window apart, every dangerous
\* evaluation has exactly one such fire in the window that ends with it, and
\* every alert of that type comes from a fire of its own.
C3_OneFirePerWindow ==
    /\ \A i, j \in 1..Len(calls) :
          (i < j /\ calls[i].k = calls[j].k /\ calls[i].fired /\ calls[j].fired)
              => calls[j].now - calls[i].now >= DEFAULT_COOLDOWN_MS
    /\ \A j \in 1..Len(calls) :
          Cardinality({i \in Fires(calls[j].k) :
                          /\ calls[i].now <= calls[j].now
                          /\ calls[j].now - calls[i].now < DEFAULT_COOLDOWN_MS}) = 1
    /\ \A type \in {"fall", "inactivity"} :
          Cardinality(AlertsOf(type)) + Cardinality(Creating(type))
              = Cardinality(Fires(key(Subject, type)))

\* two fall requests in flight together: one fired and has not yet created
\* its alert, the other was suppressed and answered danger without alertId
C3_Witness ==
    /\ Len(calls) = 2
    /\ calls[1].k = key(Subject, "fall") /\ calls[2].k = key(Subject, "fall")
    /\ calls[1].fired /\ ~calls[2].fired
    /\ Creating("fall") # {}
    /\ \E e \in 1..Len(events) :
          /\ events[e].type = "fall" /\ events[e].code = 200
          /\ events[e].danger /\ events[e].alertId = 0

\* the first two requests are fall events of one subject and one session,
\* the second posted 10 seconds after the first and after the first was
\* answered, each evaluated at the instant it was posted
TwoFallsTenSecondsApart ==
    /\ nreq = 2 /\ Len(events) = 2
    /\ events[1].rq = 1 /\ events[2].rq = 2 /\ events[2].seen = 1
    /\ events[1].type = "fall" /\ events[2].type = "fall"
    /\ events[1].sessionId = "s1" /\ events[2].sessionId = "s1"
    /\ events[2].posted - events[1].posted = TenSeconds
    /\ Len(calls) = 2
    /\ calls[1].now = events[1].posted /\ calls[2].now = events[2].posted

\* C4 as claimed: two fall events of one subject posted 10 seconds apart
\* create one alert; the first answer carries an alertId, the second reports
\* danger = true and carries no alertId.
C4_TwoFallsOneAlert ==
    TwoFallsTenSecondsApart
        => /\ events[1].code = 200 /\ events[1].alertId # 0
           /\ events[2].code = 200 /\ events[2].danger /\ events[2].alertId = 0
           /\ Len(alerts) = 1

\* the subject has one eligible contact with SMS enabled, and the only
\* request so far, a fall event with confidence 0.95 and durationMs 0, has
\* been answered
OneFallForSubjectWithSmsContact ==
    /\ Len(candidatesFor(contacts, Subject, "fall")) = 1
    /\ candidatesFor(contacts, Subject, "fall")[1].sms
    /\ nreq = 1 /\ Len(events) = 1
    /\ events[1].type = "fall" /\ events[1].sessionId = "s1"

\* C14 as claimed: such an event creates one alert with severity critical
\* and priority 10 whose ledger holds one entry, of channel sms and status
\* sent or failed.
C14_FallWithSmsContact ==
    OneFallForSubjectWithSmsContact
        => /\ Len(alerts) = 1
           /\ alerts[1].severity = "critical" /\ alerts[1].priority = 10
           /\ Len(alerts[1].notifications) = 1
           /\ alerts[1].notifications[1].contactType = "sms"
           /\ alerts[1].notifications[1].status \in {"sent", "failed"}

(***************************************************************************)
(* routes/monitoring.js: start, stop, pause and resume of a session, with  *)
(* event ingestion (SpecSession)                                           *)
(***************************************************************************)
\* `session_${Date.now()}_${random}`: an id no other request generates
generatedId(rq) == "session_" \o ToString(rq)

\* the :sessionId values the model sends to stop, pause and resume
TargetIds == {"s1"} \cup {generatedId(n) : n \in 1..MaxRequests}

\* Monitoring.findOne({ userId, status: 'active' })
hasActive == \E sid \in DOMAIN sessions : sessions[sid].status = "active"

\* res.status(code).json(...) of the session routes
SessionRespond(h, op, code) ==
    /\ resp' = [op |-> op, id |-> 0, code |-> code, msg |-> ""]
    /\ req' = [req EXCEPT ![h] = NoReq]

\* POST /start: validation, Monitoring.findOne for an active session
StartLoad(h) ==
    /\ CanReceive(h)
    /\ nreq' = nreq + 1
    /\ UnchangedConfig /\ UNCHANGED <<lastFired, calls, cooldownMs, clock, alerts, events, sessions>>
    /\ IF hasActive
       THEN SessionRespond(h, "start", 400)
       ELSE Await(h, [op |-> "start", pc |-> "create", id |-> 0, rq |-> nreq + 1])

\* POST /start: Monitoring.create with a generated sessionId
StartCreate(h) ==
    /\ req[h].op = "start" /\ req[h].pc = "create"
    /\ UnchangedConfig /\ UNCHANGED <<lastFired, calls, cooldownMs, clock, alerts, events, nreq>>
    /\ sessions' = mapSet(sessions, generatedId(req[h].rq), newSession)
    /\ SessionRespond(h, "start", 201)

\* the status a session route refuses, and the status it writes
sessionRejected(op, status) ==
    CASE op = "stop" -> status = "stopped"
      [] op = "pause" -> status # "active"
      [] OTHER -> status # "paused"

sessionTarget(op) ==
    CASE op = "stop" -> "stopped"
      [] op = "pause" -> "paused"
      [] OTHER -> "active"

\* PUT /stop/:sessionId, /pause/:sessionId, /resume/:sessionId:
\* Monitoring.findOne, the status check, the assignment up to save()
SessionLoad(h, op, sid) ==
    /\ CanReceive(h)
    /\ nreq' = nreq + 1
    /\ UnchangedConfig /\ UNCHANGED <<lastFired, calls, cooldownMs, clock, alerts, events, sessions>>
    /\ IF sid \notin DOMAIN sessions
       THEN SessionRespond(h, op, 404)
       ELSE IF sessionRejected(op, sessions[sid].status)
       THEN SessionRespond(h, op, 400)
       ELSE Await(h, [op |-> op, pc |-> "save", id |-> 0, sid |-> sid,
                      status |-> sessionTarget(op)])

\* monitoring.save() of stop, pause and resume: $set of the status
SessionSave(h) ==
    /\ req[h].op \in {"stop", "pause", "resume"} /\ req[h].pc = "save"
    /\ UnchangedConfig /\ UNCHANGED <<lastFired, calls, cooldownMs, clock, alerts, events, nreq>>
    /\ sessions' = [sessions EXCEPT ![req[h].sid].status = req[h].status]
    /\ SessionRespond(h, req[h].op, 200)

InitSession ==
    /\ lastFired = << >>
    /\ calls = << >>
    /\ cooldownMs = DEFAULT_COOLDOWN_MS
    /\ clock = StartTime
    /\ alerts = << >>
    /\ contacts = << >>
    /\ emailTo = FALSE
    /\ req = [h \in Handlers |-> NoReq]
    /\ resp = NoResp
    /\ nreq = 0
    /\ events = << >>
    /\ sessions = << >>

NextSession ==
    \E h \in Handlers :
        \/ StartLoad(h)
        \/ StartCreate(h)
        \/ \E op \in {"stop", "pause", "resume"}, sid \in TargetIds : SessionLoad(h, op, sid)
        \/ SessionSave(h)
        \/ \E body \in EventBodies : EventReceive(h, body)
        \/ EventCreateSession(h)
        \/ EventAddActivity(h)
        \/ EventCreateAlert(h)
        \/ EventSelectContacts(h)

SpecSession == InitSession /\ [][NextSession]_vars

\* the sessions of the subject whose stored status is active
ActiveSessions == {sid \in DOMAIN sessions : sessions[sid].status = "active"}

\* C20 as claimed: the subject never has more than one session with status
\* active.
C20_AtMostOneActiveSession == Cardinality(ActiveSessions) <= 1

(***************************************************************************)
(* routes/monitoring.js: POST /:sessionId/activity next to POST /event     *)
(* (SpecActivity). The clock does not advance: every request falls into    *)
(* one cooldown window.                                                    *)
(***************************************************************************)
\* the riskLevel values the validator of POST /:sessionId/activity accepts
RiskLevels == {"low", "medium", "high", "critical"}

\* the request bodies of POST /:sessionId/activity the model sends
ActivityBodies ==
    {[activityType |-> "fall", riskLevel |-> "critical"],
     [activityType |-> "fall", riskLevel |-> "low"],
     [activityType |-> "walk", riskLevel |-> "high"],
     [activityType |-> "normal", riskLevel |-> "low"]}

\* the :sessionId values the model sends to POST /:sessionId/activity
ActivitySessions == {"s1", "s2"}

\* POST /:sessionId/activity: the validators, Monitoring.findOne, the status check
ActivityReceive(h, sid, body) ==
    /\ CanReceive(h)
    /\ nreq' = nreq + 1
    /\ UnchangedConfig /\ UNCHANGED <<lastFired, calls, cooldownMs, clock, alerts, events, sessions>>
    /\ IF body.activityType \notin ActivityTypes \/ body.riskLevel \notin RiskLevels
       THEN SessionRespond(h, "activity", 400)
       ELSE IF sid \notin DOMAIN sessions
       THEN SessionRespond(h, "activity", 404)
       ELSE IF sessions[sid].status # "active"
       THEN SessionRespond(h, "activity", 400)
       ELSE Await(h, [op |-> "activity", pc |-> "add", id |-> 0, sid |-> sid, body |-> body])

\* POST /:sessionId/activity: monitoring.addActivity, then the riskLevel test
ActivityAdd(h) ==
    /\ req[h].op = "activity" /\ req[h].pc = "add"
    /\ UnchangedConfig /\ UNCHANGED <<lastFired, calls, cooldownMs, clock, alerts, events, nreq>>
    /\ sessions' = [sessions EXCEPT ![req[h].sid].activities = addActivity(@)]
    /\ IF req[h].body.riskLevel \in {"high", "critical"}
       THEN Await(h, [req[h] EXCEPT !.pc = "alert"])
       ELSE SessionRespond(h, "activity", 200)

\* POST /:sessionId/activity: Alert.create
ActivityCreateAlert(h) ==
    /\ req[h].op = "activity" /\ req[h].pc = "alert"
    /\ UnchangedConfig /\ UNCHANGED <<lastFired, calls, cooldownMs, clock, nreq, events, sessions>>
    /\ LET r == req[h] IN
       /\ alerts' = Append(alerts,
              createAlert(newAlert(Subject,
                                   IF r.body.activityType = "fall" THEN "fall" ELSE "medical",
                                   r.body.riskLevel, "active", 0)))
       /\ Await(h, [r EXCEPT !.pc = "notify", !.id = Len(alerts) + 1])

\* the ledger after the addNotification calls of the loop over the contacts
RECURSIVE addAll(_, _, _)
addAll(doc, todo, now) ==
    IF todo = << >> THEN doc
    ELSE IF Head(todo).ph = "add"
    THEN addAll(addNotification(doc, Head(todo).c, Head(todo).ch, now), Tail(todo), now)
    ELSE addAll(doc, Tail(todo), now)

\* POST /:sessionId/activity: Contact.getAvailableContactsForAlert and the
\* loop inside try/catch (an error is logged), monitoring.alerts.push,
\* monitoring.save() and the answer
ActivityNotify(h) ==
    /\ req[h].op = "activity" /\ req[h].pc = "notify"
    /\ UnchangedConfig /\ UNCHANGED <<lastFired, calls, cooldownMs, clock, nreq, events, sessions>>
    /\ LET r == req[h]
           found == getAvailableContactsForAlert(contacts, Subject, alerts[r.id].alertType)
           doc == addAll(alerts[r.id], sosTodo(found.list), clock)
       IN /\ alerts' = IF found.threw THEN alerts
                       ELSE [alerts EXCEPT ![r.id].notifications = doc.notifications,
                                           ![r.id].v = @ + Len(doc.notifications)
                                                        - Len(alerts[r.id].notifications)]
          /\ resp' = [op |-> "activity", id |-> r.id, code |-> 200, msg |-> ""]
          /\ req' = [req EXCEPT ![h] = NoReq]

InitActivity ==
    /\ lastFired = << >>
    /\ calls = << >>
    /\ cooldownMs = DEFAULT_COOLDOWN_MS
    /\ clock = StartTime
    /\ alerts = << >>
    /\ \E c \in Configs : contacts = c.contacts /\ emailTo = c.emailTo
    /\ req = [h \in Handlers |-> NoReq]
    /\ resp = NoResp
    /\ nreq = 0
    /\ events = << >>
    /\ sessions = << >>

NextActivity ==
    \E h \in Handlers :
        \/ \E sid \in ActivitySessions, body \in ActivityBodies : ActivityReceive(h, sid, body)
        \/ ActivityAdd(h)
        \/ ActivityCreateAlert(h)
        \/ ActivityNotify(h)
        \/ \E body \in EventBodies : EventReceive(h, body)
        \/ EventCreateSession(h)
        \/ EventAddActivity(h)
        \/ EventCreateAlert(h)
        \/ EventSelectContacts(h)

SpecActivity == InitActivity /\ [][NextActivity]_vars

\* C26 as claimed: within one cooldown window at most one alert of a type is
\* created for the subject, whichever ingestion endpoint received the
\* events.
C26_OneAlertPerWindow ==
    \A t \in AlertTypes : Cardinality(AlertsOf(t)) <= 1

(***************************************************************************)
(* routes/contacts.js and models/Contact.js: creation of contacts and the  *)
(* pre-save hook that keeps one primary contact per type (SpecContact)     *)
(***************************************************************************)
\* contactSchema.contactType: enum
ContactTypes == {"family_member", "caregiver", "emergency_contact", "healthcare_provider",
                 "neighbor"}

\* the request bodies of POST /api/contacts the model sends
ContactBodies ==
    [contactType : {"caregiver", "neighbor", "friend"}, isPrimary : BOOLEAN]

\* the _id mongoose gives the document when it is constructed
generatedContactId(rq) == "c" \o ToString(rq)

\* the document Contact.create builds from { ...req.body, userId: req.user._id }
\* with the schema defaults: active, no alertTypes, the three channels enabled
newContact(id, userId, body) ==
    [id |-> id, userId |-> userId, contactType |-> body.contactType,
     isPrimary |-> body.isPrimary, isActive |-> TRUE, alertTypes |-> {},
     email |-> TRUE, sms |-> TRUE, push |-> TRUE, phone |-> "p1"]

\* updateMany({ userId, contactType, _id: { $ne: _id } }, { isPrimary: false })
clearOtherPrimaries(cs, doc) ==
    [i \in 1..Len(cs) |->
        IF cs[i].userId = doc.userId /\ cs[i].contactType = doc.contactType /\ cs[i].id # doc.id
        THEN [cs[i] EXCEPT !.isPrimary = FALSE]
        ELSE cs[i]]

\* POST /api/contacts: the validators, then Contact.create up to the first
\* database operation of save()
ContactReceive(h, body) ==
    /\ CanReceive(h)
    /\ nreq' = nreq + 1
    /\ UnchangedRules /\ UnchangedConfig /\ UNCHANGED <<clock, alerts>>
    /\ IF body.contactType \notin ContactTypes
       THEN /\ resp' = [op |-> "contact", id |-> 0, code |-> 400, msg |-> "Validation failed"]
            /\ UNCHANGED req
       ELSE Await(h, [op |-> "contact",
                      pc |-> IF body.isPrimary THEN "hook" ELSE "insert",
                      doc |-> newContact(generatedContactId(nreq + 1), Subject, body)])

\* contactSchema.pre('save'): isPrimary is modified and true, so the other
\* contacts of the same user and type are set to non-primary
ContactHook(h) ==
    /\ req[h].op = "contact" /\ req[h].pc = "hook"
    /\ UnchangedRules /\ UNCHANGED <<clock, alerts, emailTo, nreq>>
    /\ contacts' = clearOtherPrimaries(contacts, req[h].doc)
    /\ Await(h, [req[h] EXCEPT !.pc = "insert"])

\* the insert of save(), then res.status(201)
ContactInsert(h) ==
    /\ req[h].op = "contact" /\ req[h].pc = "insert"
    /\ UnchangedRules /\ UNCHANGED <<clock, alerts, emailTo, nreq>>
    /\ contacts' = Append(contacts, req[h].doc)
    /\ resp' = [op |-> "contact", id |-> Len(contacts) + 1, code |-> 201,
                msg |-> "Contact created successfully"]
    /\ req' = [req EXCEPT ![h] = NoReq]

InitContact ==
    /\ lastFired = << >>
    /\ calls = << >>
    /\ cooldownMs = DEFAULT_COOLDOWN_MS
    /\ clock = 1
    /\ alerts = << >>
    /\ contacts = << >>
    /\ emailTo = FALSE
    /\ req = [h \in Handlers |-> NoReq]
    /\ resp = NoResp
    /\ nreq = 0
    /\ events = << >>
    /\ sessions = << >>

NextContact ==
    \E h \in Handlers :
        \/ \E body \in ContactBodies : ContactReceive(h, body)
        \/ ContactHook(h)
        \/ ContactInsert(h)

SpecContact == InitContact /\ [][NextContact]_vars

\* the stored primary contacts of one user and type
PrimariesOf(userId, contactType) ==
    {i \in 1..Len(contacts) : /\ contacts[i].userId = userId
                              /\ contacts[i].contactType = contactType
                              /\ contacts[i].isPrimary}

\* C21 as claimed: in every reachable state at most one contact of a
\* (subject, contactType) pair is primary, concurrent creations included.
C21_OnePrimaryPerType ==
    \A t \in ContactTypes : Cardinality(PrimariesOf(Subject, t)) <= 1

(***************************************************************************)
(* models/Contact.js: getAvailableContactsForAlert applied to any contact  *)
(* collection (SpecSelect)                                                 *)
(***************************************************************************)
\* the weekdays and times of day ("HH:MM" as minutes) of the instants the
\* selection is asked for
SelectDays == {"monday", "tuesday"}
SelectTimes == {8 * 60, 12 * 60}

\* availability of a weekday: the schema default, and a day switched off
Always == [available |-> TRUE, window |-> << >>]
Never == [available |-> FALSE, window |-> << >>]
\* a weekday with start "09:00" and end "17:00"
OfficeHours == [available |-> TRUE, window |-> <<9 * 60, 17 * 60>>]

\* the contact documents the collections of the model are drawn from
ContactPool ==
    {[id |-> "c1", userId |-> "u1", isActive |-> TRUE, alertTypes |-> {"fall"},
      email |-> FALSE, sms |-> TRUE, push |-> FALSE, phone |-> "p1",
      isPrimary |-> FALSE, firstName |-> "Ann",
      availability |-> [d \in SelectDays |-> Always]],
     [id |-> "c2", userId |-> "u1", isActive |-> TRUE, alertTypes |-> {"fall", "medical"},
      email |-> TRUE, sms |-> FALSE, push |-> FALSE, phone |-> "p2",
      isPrimary |-> TRUE, firstName |-> "Bob",
      availability |-> [d \in SelectDays |-> IF d = "monday" THEN Never ELSE OfficeHours]],
     [id |-> "c3", userId |-> "u1", isActive |-> FALSE, alertTypes |-> {"fall"},
      email |-> TRUE, sms |-> TRUE, push |-> TRUE, phone |-> "p3",
      isPrimary |-> FALSE, firstName |-> "Cid",
      availability |-> [d \in SelectDays |-> Always]],
     [id |-> "c4", userId |-> "u2", isActive |-> TRUE, alertTypes |-> {"fall"},
      email |-> TRUE, sms |-> TRUE, push |-> TRUE, phone |-> "p4",
      isPrimary |-> TRUE, firstName |-> "Ann",
      availability |-> [d \in SelectDays |-> Always]],
     [id |-> "c5", userId |-> "u1", isActive |-> TRUE, alertTypes |-> {"fall"},
      email |-> FALSE, sms |-> FALSE, push |-> FALSE, phone |-> "p5",
      isPrimary |-> FALSE, firstName |-> "Bob",
      availability |-> [d \in SelectDays |-> Always]]}

\* the collections: up to two documents of the pool in insertion order
ContactCollections ==
    {<< >>} \cup {<<c>> : c \in ContactPool}
            \cup {<<p[1], p[2]>> : p \in {q \in ContactPool \X ContactPool : q[1] # q[2]}}

InitSelect ==
    /\ lastFired = << >>
    /\ calls = << >>
    /\ cooldownMs = DEFAULT_COOLDOWN_MS
    /\ clock = 1
    /\ alerts = << >>
    /\ contacts \in ContactCollections
    /\ emailTo = FALSE
    /\ req = [h \in Handlers |-> NoReq]
    /\ resp = NoResp
    /\ nreq = 0
    /\ events = << >>
    /\ sessions = << >>

\* Contact.getAvailableContactsForAlert(userId, alertType, dateTime): its
\* outcome is recorded
Select(userId, alertType, day, time) ==
    /\ Len(events) < MaxEvals
    /\ events' = Append(events,
           [userId |-> userId, alertType |-> alertType, day |-> day, time |-> time,
            found |-> getAvailableContactsForAlert(contacts, userId, alertType)])
    /\ UNCHANGED <<lastFired, calls, cooldownMs, clock, alerts, contacts, emailTo, req, resp,
                   nreq, sessions>>

NextSelect ==
    \E userId \in Users, alertType \in {"fall", "medical"}, day \in SelectDays,
       time \in SelectTimes :
        Select(userId, alertType, day, time)

SpecSelect == InitSelect /\ [][NextSelect]_vars

\* contact c is one the selection for (userId, alertType, day, time) is to return
Eligible(c, userId, alertType, day, time) ==
    /\ c.userId = userId /\ c.isActive /\ alertType \in c.alertTypes
    /\ (c.email \/ c.sms \/ c.push)
    /\ c.availability[day].available
    /\ \/ c.availability[day].window = << >>
       \/ /\ time >= c.availability[day].window[1]
          /\ time <= c.availability[day].window[2]

\* C24 as claimed: a selection returns exactly the user's contacts that are
\* active, list the alert type, have a channel enabled and are available on
\* the weekday at the time asked for.
C24_SelectsExactlyEligible ==
    \A i \in 1..Len(events) :
        LET e == events[i] IN
        /\ ~e.found.threw
        /\ e.found.list = SelectSeq(contacts,
               LAMBDA c : Eligible(c, e.userId, e.alertType, e.day, e.time))

\* alphabetic order of the first names of the pool
NameRank(name) == CASE name = "Ann" -> 1 [] name = "Bob" -> 2 [] OTHER -> 3

\* contact c comes before contact d: primary first, then by name
Before(c, d) ==
    \/ c.isPrimary /\ ~d.isPrimary
    \/ c.isPrimary = d.isPrimary /\ NameRank(c.firstName) <= NameRank(d.firstName)

\* C25 as claimed: a selection returns a list in which primary contacts come
\* before the others and, within each group, names are in alphabetic order.
C25_PrimaryFirstThenByName ==
    \A i \in 1..Len(events) :
        LET e == events[i] IN
        /\ ~e.found.threw
        /\ \A a, b \in 1..Len(e.found.list) :
              a < b => Before(e.found.list[a], e.found.list[b])

(***************************************************************************)
(* SpecFanout: POST /sos and its fan-out loop, interleaved with the        *)
(* escalate and notification-status routes, for subjects whose contacts    *)
(* have several channels enabled                                           *)
(***************************************************************************)
FanoutConfigs ==
    {[contacts |-> <<[id |-> "c1", userId |-> "u1", isActive |-> TRUE, alertTypes |-> {"fall"},
                      email |-> TRUE, sms |-> TRUE, push |-> TRUE, phone |-> "p1"]>>,
      emailTo |-> TRUE],
     [contacts |-> <<[id |-> "c1", userId |-> "u1", isActive |-> TRUE, alertTypes |-> {"fall"},
                      email |-> TRUE, sms |-> FALSE, push |-> FALSE, phone |-> "p1"],
                     [id |-> "c2", userId |-> "u1", isActive |-> FALSE, alertTypes |-> {"sos"},
                      email |-> FALSE, sms |-> TRUE, push |-> FALSE, phone |-> "p2"]>>,
      emailTo |-> FALSE]}

InitFanout ==
    /\ lastFired = << >>
    /\ calls = << >>
    /\ cooldownMs = DEFAULT_COOLDOWN_MS
    /\ clock = 1
    /\ alerts = << >>
    /\ \E c \in FanoutConfigs : contacts = c.contacts /\ emailTo = c.emailTo
    /\ req = [h \in Handlers |-> NoReq]
    /\ resp = NoResp
    /\ nreq = 0
    /\ events = << >>
    /\ sessions = << >>

\* the steps of requests already received
FanoutProgress ==
    \E h \in Handlers :
        \/ SosAdd(h)
        \/ \E sent \in BOOLEAN : SosUpdate(h, sent)
        \/ Save(h)

NextFanout ==
    \/ FanoutProgress
    \/ \E h \in Handlers :
        \/ PostSos(h)
        \/ \E id \in AlertIds : EscalateLoad(h, id, "sms")
        \/ \E id \in AlertIds, c \in NotifContacts, st \in NotifStatuses : NotifLoad(h, id, c, st)

SpecFanout == InitFanout /\ [][NextFanout]_vars

\* every request that was received runs to its answer
FairSpecFanout == SpecFanout /\ WF_vars(FanoutProgress)

(***************************************************************************)
(* Properties of the fan-out (SpecFanout)                                  *)
(***************************************************************************)
\* slot h records the outcome of a channel send in this step
UpdateStep(h) ==
    /\ req[h].op = "sos" /\ req[h].todo # << >> /\ Head(req[h].todo).ph = "upd"
    /\ req'[h] # req[h]

\* the ledger entries of alert id that this step marked failed
FailedNow(id) ==
    {i \in 1..Len(alerts[id].notifications) :
        alerts'[id].notifications[i].deliveryAttempts
            > alerts[id].notifications[i].deliveryAttempts}

\* C17 as claimed: when the send to one (contact, channel) fails, the
\* failure is recorded on the ledger entry of that contact and channel, the
\* entries of the other channels and contacts stay as they are, and the
\* request goes on to its 201 answer.
C17_FailureRecordedOnItsEntry ==
    [][\A h \in Handlers :
          (UpdateStep(h) /\ FailedNow(req[h].id) # {})
              => LET id == req[h].id
                     t == Head(req[h].todo)
                 IN /\ \A i \in 1..Len(alerts[id].notifications) :
                          LET was == alerts[id].notifications[i]
                              now == alerts'[id].notifications[i]
                          IN IF was.contactId = t.c /\ was.contactType = t.ch
                             THEN now.status = "failed"
                             ELSE now = was
                    /\ \/ req'[h].op = "sos"
                       \/ resp'.op = "sos" /\ resp'.code = 201]_vars

\* the most recent entry of a ledger for one contact and channel, 0 when
\* there is none
MostRecent(n, contactId, channel) ==
    LET hits == {i \in 1..Len(n) : n[i].contactId = contactId /\ n[i].contactType = channel}
    IN IF hits = {} THEN 0 ELSE CHOOSE i \in hits : \A j \in hits : j <= i

\* C23 as claimed: a status update for a contact and channel that is stored
\* changes only the most recent ledger entry of that contact and channel: it
\* gets the status, one more attempt only when the status is failed, and the
\* time of the update as its last attempt; every other entry is as before.
C23_UpdatesOnlyItsEntry ==
    [][\A h \in Handlers :
          (UpdateStep(h) /\ alerts' # alerts)
              => LET id == req[h].id
                     t == Head(req[h].todo)
                     n == alerts[id].notifications
                     m == alerts'[id].notifications
                     target == MostRecent(n, t.c, t.ch)
                 IN /\ Len(m) = Len(n) /\ target # 0
                    /\ \A i \in 1..Len(n) : i # target => m[i] = n[i]
                    /\ m[target].status \in {"sent", "failed"}
                    /\ m[target].deliveryAttempts =
                          n[target].deliveryAttempts
                              + (IF m[target].status = "failed" THEN 1 ELSE 0)
                    /\ m[target].lastAttempt = clock]_vars

\* the positions a ledger can have in the model
LedgerIndices == 1..(2 * Cardinality(Channels))

\* entry i of alert id exists and has the given status
EntryIs(id, i, statuses) ==
    /\ id <= Len(alerts)
    /\ i <= Len(alerts[id].notifications)
    /\ alerts[id].notifications[i].status \in statuses

\* C18 as claimed: every ledger entry appended as pending is eventually
\* sent or failed.
C18_PendingEventuallySettled ==
    \A id \in AlertIds : \A i \in LedgerIndices :
        EntryIs(id, i, {"pending"}) ~> EntryIs(id, i, {"sent", "failed"})

\* the (contact, channel) pairs of the ledger of a document
LedgerPairs(doc) ==
    {<<doc.notifications[i].contactId, doc.notifications[i].contactType>> :
        i \in 1..Len(doc.notifications)}

\* the active contacts of the subject with each of their enabled channels
EnabledPairs ==
    {p \in {contacts[k].id : k \in 1..Len(contacts)} \X Channels :
        \E k \in 1..Len(contacts) :
            /\ contacts[k].id = p[1]
            /\ contacts[k].userId = Subject /\ contacts[k].isActive
            /\ contacts[k][p[2]]}

EvalTypes == RawTypes \cup {"", "prolonged_inactivity", "safe"}
EvalConfidences == {0, 50, 69, 70, 89, 90, 95, 100}
EvalDurations ==
    {0, DEFAULT_INACTIVITY_THRESHOLD_MS - 1, DEFAULT_INACTIVITY_THRESHOLD_MS,
     2 * DEFAULT_INACTIVITY_THRESHOLD_MS - 1, 2 * DEFAULT_INACTIVITY_THRESHOLD_MS, 400000}

InitRules ==
    /\ lastFired = << >>
    /\ calls = << >>
    /\ cooldownMs = DEFAULT_COOLDOWN_MS
    /\ clock = 0
    /\ alerts = << >>
    /\ contacts = << >>
    /\ emailTo = FALSE
    /\ req = [h \in Handlers |-> NoReq]
    /\ resp = NoResp
    /\ nreq = 0
    /\ events = << >>
    /\ sessions = << >>

\* isDanger and severityFor applied to one event
Evaluate(type, confidence, durationMs) ==
    /\ Len(events) < MaxEvals
    /\ events' = Append(events, [raw |-> type, confidence |-> confidence,
                                 durationMs |-> durationMs,
                                 danger |-> isDanger(type, durationMs),
                                 severity |-> severityFor(type, confidence, durationMs)])
    /\ UNCHANGED <<lastFired, calls, cooldownMs, clock, alerts, contacts, emailTo, req, resp,
                   nreq, sessions>>

NextRules ==
    \E type \in EvalTypes, confidence \in EvalConfidences, durationMs \in EvalDurations :
        Evaluate(type, confidence, durationMs)

SpecRules == InitRules /\ [][NextRules]_vars

\* the type strings that name a fall, and those that name inactivity
FallNames == {"fall", "FALL", "falls"}
InactivityNames == {"inactivity", "idle", "prolonged_inactivity"}

\* C15: severityFor gives, for a fall, critical from confidence 0.9, high
\* from 0.7 and medium below; for inactivity, high from twice the threshold,
\* medium from the threshold and low below; low for every other type.
C15_SeverityFor ==
    \A i \in 1..Len(events) :
        LET e == events[i] IN
        /\ e.raw \in FallNames =>
              e.severity = (IF e.confidence >= 90 THEN "critical"
                            ELSE IF e.confidence >= 70 THEN "high" ELSE "medium")
        /\ e.raw \in InactivityNames =>
              e.severity = (IF e.durationMs >= 360000 THEN "high"
                            ELSE IF e.durationMs >= 180000 THEN "medium" ELSE "low")
        /\ e.raw \notin FallNames \cup InactivityNames => e.severity = "low"

\* an inactivity event of 400000 ms was rated high
C15_Witness ==
    \E i \in 1..Len(events) :
        /\ events[i].raw = "idle" /\ events[i].durationMs = 400000
        /\ events[i].severity = "high"

NowStep == DEFAULT_COOLDOWN_MS \div 2
Nows == {n * NowStep : n \in 0..MaxNowSteps}
CooldownChoices == {DEFAULT_COOLDOWN_MS, DEFAULT_COOLDOWN_MS \div 2}
CallTypes == {"fall", "FALL", "inactivity"}

InitCooldown ==
    /\ lastFired = << >>
    /\ calls = << >>
    /\ cooldownMs \in CooldownChoices
    /\ clock = 0
    /\ alerts = << >>
    /\ contacts = << >>
    /\ emailTo = FALSE
    /\ req = [h \in Handlers |-> NoReq]
    /\ resp = NoResp
    /\ nreq = 0
    /\ events = << >>
    /\ sessions = << >>

CallShouldFire(userId, type, now) ==
    /\ Len(calls) < MaxCalls
    /\ lastFired' = shouldFireMap(lastFired, userId, type, now, cooldownMs)
    /\ calls' = Append(calls, [k |-> key(userId, type), now |-> now,
                               fired |-> shouldFireResult(lastFired, userId, type, now, cooldownMs)])
    /\ UNCHANGED <<cooldownMs, clock, alerts, contacts, emailTo, req, resp, nreq, events, sessions>>

NextCooldown ==
    \E userId \in Users, type \in CallTypes, now \in Nows :
        CallShouldFire(userId, type, now)

SpecCooldown == InitCooldown /\ [][NextCooldown]_vars

\* C1: for one key, two shouldFire calls (same cooldown window) whose `now`
\* values are less than one window apart never both return true.
Abs(x) == IF x < 0 THEN -x ELSE x

C1_NoTwoFiresWithinWindow ==
    \A i, j \in 1..Len(calls) :
        (i < j /\ calls[i].k = calls[j].k /\ calls[i].fired /\ calls[j].fired)
            => Abs(calls[j].now - calls[i].now) >= cooldownMs

\* a call fired and a later call for the same key, less than a window away, was suppressed
C1_Witness ==
    \E i, j \in 1..Len(calls) :
        /\ i < j /\ calls[i].k = calls[j].k
        /\ calls[j].now > calls[i].now
        /\ calls[j].now - calls[i].now < cooldownMs
        /\ calls[i].fired /\ ~calls[j].fired

\* C2 as claimed: for one key, two calls whose `now` values are at least one
\* window apart both return true, whatever calls came before or between them.
C2_SpacedCallsBothFire ==
    \A i, j \in 1..Len(calls) :
        (i < j /\ calls[i].k = calls[j].k /\ calls[j].now - calls[i].now >= cooldownMs)
            => (calls[i].fired /\ calls[j].fired)

\* C2 amended: for one key, when a call returned true and no call between
\* them did, a later call whose `now` is at least one window after it
\* returns true as well.
C2_SpacedAfterFireFires ==
    \A i, j \in 1..Len(calls) :
        (/\ i < j /\ calls[i].k = calls[j].k
         /\ calls[i].fired
         /\ \A m \in (i+1)..(j-1) : ~(calls[m].k = calls[i].k /\ calls[m].fired)
         /\ calls[j].now - calls[i].now >= cooldownMs)
            => calls[j].fired

\* a fire, a suppressed call in between, and a second fire one window later
C2_Witness ==
    \E i, m, j \in 1..Len(calls) :
        /\ i < m /\ m < j
        /\ calls[i].k = calls[j].k /\ calls[m].k = calls[i].k
        /\ calls[i].fired /\ ~calls[m].fired /\ calls[j].fired
        /\ calls[j].now - calls[i].now >= cooldownMs

\* the call a step of SpecCooldown appends
LastCall == calls'[Len(calls')]

\* C22: a shouldFire call stores `now` under its key exactly when it returns
\* true; when it returns false the key's entry is as before (absent stays
\* absent), and the entries of all other keys are unchanged either way.
C22_RecordsOnlyOnFire ==
    [][Len(calls') = Len(calls) + 1 =>
        /\ LastCall.fired =>
              (LastCall.k \in DOMAIN lastFired' /\ lastFired'[LastCall.k] = LastCall.now)
        /\ ~LastCall.fired =>
              /\ (LastCall.k \in DOMAIN lastFired') = (LastCall.k \in DOMAIN lastFired)
              /\ LastCall.k \in DOMAIN lastFired =>
                    lastFired'[LastCall.k] = lastFired[LastCall.k]
        /\ \A k \in (DOMAIN lastFired \cup DOMAIN lastFired') \ {LastCall.k} :
              /\ k \in DOMAIN lastFired /\ k \in DOMAIN lastFired'
              /\ lastFired'[k] = lastFired[k]]_vars

\* a key fired, another key fired, then a call for the first key at another
\* `now` was suppressed and the stored times are those of the two fires
C22_Witness ==
    \E i, j, m \in 1..Len(calls) :
        /\ i < m /\ j < m /\ calls[i].k = calls[m].k /\ calls[j].k # calls[i].k
        /\ calls[i].fired /\ calls[j].fired /\ ~calls[m].fired
        /\ calls[m].now # calls[i].now
        /\ lastFired[calls[i].k] = calls[i].now
        /\ lastFired[calls[j].k] = calls[j].now

\* call i is the first shouldFire call for its key
FirstCallOfKey(i) == \A m \in 1..(i - 1) : calls[m].k # calls[i].k

\* C28 as claimed: the first call for a key returns true for every `now` and
\* every cooldown window.
C28_FirstCallAlwaysFires ==
    \A i \in 1..Len(calls) : FirstCallOfKey(i) => calls[i].fired

\* C28 amended: the first call for a key returns true when `now` is at least
\* one cooldown window (a key without an entry counts as last fired at 0).
C28_FirstCallFiresFromOneWindow ==
    \A i \in 1..Len(calls) :
        (FirstCallOfKey(i) /\ calls[i].now >= cooldownMs) => calls[i].fired

\* a first call at exactly one window fired after another key had fired
C28_Witness ==
    \E i \in 2..Len(calls) :
        /\ FirstCallOfKey(i) /\ calls[i].now = cooldownMs /\ calls[i].fired
        /\ calls[1].fired
====
